---- MODULE Spec2Model ----
(***************************************************************************)
(* A model of the limitbook central limit order book                       *)
(* (src/src/order_book.rs, src/src/ticks.rs, src/src/order.rs).            *)
(*                                                                         *)
(* Decimal prices and quantities are integers counted in a smallest unit;  *)
(* tick_size is a whole number of those units, so a price may lie between  *)
(* two ticks.  Decimal arithmetic on these values is exact.                *)
(***************************************************************************)
EXTENDS Integers, Sequences, FiniteSets, TLC

VARIABLES tick_size, bids, asks, next_id, order_lookup,
          total_bid_volume, total_ask_volume,
          last, rested, maker_filled, limit_price, cancel_count, allocated

vars == <<tick_size, bids, asks, next_id, order_lookup,
          total_bid_volume, total_ask_volume, last, rested, maker_filled,
          limit_price, cancel_count, allocated>>

(* ---- bounds of the model ---- *)
MaxOrders == 3
MaxPrice == 4
MaxQty == 2

TickSizes == {4}
Sides == {"Buy", "Sell"}
Prices == 0 .. MaxPrice
Quantities == (0 - 1) .. MaxQty
OrderIds == 0 .. MaxOrders

(* ---- Decimal helpers ---- *)
Min(a, b) == IF a < b THEN a ELSE b

\* Decimal::round of the quotient n / d (d > 0): nearest integer, a tie
\* goes to the even neighbour.
Round(n, d) ==
    LET q == n \div d
        r == n % d
    IN  IF 2 * r < d THEN q
        ELSE IF 2 * r > d THEN q + 1
        ELSE IF q % 2 = 0 THEN q ELSE q + 1

\* As normalize, truncating the quotient where it should round it.
normalize_floor(price, ts) == (price \div ts) * ts
normalize(price, ts) == Round(price, ts) * ts

\* Tick::new: the level of the tick, or an error.
TickNew(price, ts) ==
    IF price <= 0 THEN [ok |-> FALSE, level |-> 0]
    ELSE IF ts <= 0 THEN [ok |-> FALSE, level |-> 0]
    ELSE [ok |-> TRUE, level |-> normalize(price, ts)]

\* As OrderNew, leaving the id at its default of zero.
OrderNew_anon(id, quantity, order_type, order_side) ==
    [id |-> 0, quantity |-> quantity,
     order_type |-> order_type, order_side |-> order_side]
\* Order::new (called with a positive quantity only).
OrderNew(id, quantity, order_type, order_side) ==
    [id |-> id, quantity |-> quantity,
     order_type |-> order_type, order_side |-> order_side]

(* ---- Orders: one price level ---- *)
OrdersNew == [orders |-> <<>>, total_volume |-> 0, order_count |-> 0]

\* As add_order, pushing to the front of the queue.
add_order_front(o, order) ==
    [orders |-> <<order>> \o o.orders,
     total_volume |-> o.total_volume + order.quantity,
     order_count |-> o.order_count + 1]
add_order(o, order) ==
    [orders |-> Append(o.orders, order),
     total_volume |-> o.total_volume + order.quantity,
     order_count |-> o.order_count + 1]

\* As RemoveAt, removing the front of the queue whatever pos is.
RemoveAt_front(s, pos) == Tail(s)
RemoveAt(s, pos) ==
    [i \in 1 .. (Len(s) - 1) |-> IF i < pos THEN s[i] ELSE s[i + 1]]

Position(s, order_id) ==
    LET hits == {i \in 1 .. Len(s) : s[i].id = order_id}
    IN  IF hits = {} THEN 0
        ELSE CHOOSE i \in hits : \A j \in hits : i <= j

\* As remove_order, leaving the level's total_volume as it was.
remove_order_stale(o, order_id) ==
    LET pos == Position(o.orders, order_id)
    IN  IF pos # 0
        THEN [ok |-> TRUE,
              order |-> o.orders[pos],
              orders |-> [orders |-> RemoveAt(o.orders, pos),
                          total_volume |-> o.total_volume,
                          order_count |-> o.order_count - 1]]
        ELSE [ok |-> FALSE, order |-> OrderNew(0, 0, "Limit", "Buy"), orders |-> o]
remove_order(o, order_id) ==
    LET pos == Position(o.orders, order_id)
    IN  IF pos # 0
        THEN [ok |-> TRUE,
              order |-> o.orders[pos],
              orders |-> [orders |-> RemoveAt(o.orders, pos),
                          total_volume |-> o.total_volume - o.orders[pos].quantity,
                          order_count |-> o.order_count - 1]]
        ELSE [ok |-> FALSE, order |-> OrderNew(0, 0, "Limit", "Buy"), orders |-> o]

(* ---- BTreeMap / HashMap helpers ---- *)
\* As MinKey, taking the last entry of the map for the first.
MinKey_last(m) == CHOOSE k \in DOMAIN m : \A j \in DOMAIN m : k >= j
MinKey(m) == CHOOSE k \in DOMAIN m : \A j \in DOMAIN m : k <= j
MaxKey(m) == CHOOSE k \in DOMAIN m : \A j \in DOMAIN m : k >= j
MapRemove(m, k) == [j \in DOMAIN m \ {k} |-> m[j]]
MapPut(m, k, v) == [j \in DOMAIN m \cup {k} |-> IF j = k THEN v ELSE m[j]]

(* ---- the book as one value ---- *)
Book == [bids |-> bids, asks |-> asks, next_id |-> next_id,
         order_lookup |-> order_lookup,
         total_bid_volume |-> total_bid_volume,
         total_ask_volume |-> total_ask_volume]

OrderBookNew == [bids |-> <<>>, asks |-> <<>>, next_id |-> 0,
                 order_lookup |-> <<>>,
                 total_bid_volume |-> 0, total_ask_volume |-> 0]

\* As next_order_id, without the increment.
next_order_id_stuck(id) == id
\* OrderBook::next_order_id: the value next_id takes when id is handed out.
next_order_id(id) == id + 1

\* As FillNew, with the taker's and the maker's id in each other's place.
FillNew_swapped(quantity, price, taker_order_id, maker_order_id) ==
    [quantity |-> quantity, price |-> price,
     taker_order_id |-> maker_order_id, maker_order_id |-> taker_order_id]
\* The Fill pushed for one match.
FillNew(quantity, price, taker_order_id, maker_order_id) ==
    [quantity |-> quantity, price |-> price,
     taker_order_id |-> taker_order_id, maker_order_id |-> maker_order_id]

\* The inner matching loop, the same code in add_limit_order (Buy and Sell
\* arms) and execute_market_order.  m carries the loop's state: the level's
\* Orders, remaining_quantity, fills, the opposite side's aggregate volume
\* and order_lookup.
RECURSIVE MatchOrders(_, _, _)
MatchOrders(m, price_level, taker_id) ==
    IF m.remaining_quantity > 0 /\ m.orders.orders # <<>>
    THEN LET resting_order == Head(m.orders.orders)
             fill_quantity == Min(m.remaining_quantity, resting_order.quantity)
             fill == FillNew(fill_quantity, price_level, taker_id,
                             resting_order.id)
             full == (fill_quantity = resting_order.quantity)
         IN  MatchOrders(
               [orders |-> [orders |-> IF full THEN Tail(m.orders.orders)
                                       ELSE m.orders.orders,
                            total_volume |-> m.orders.total_volume - fill_quantity,
                            order_count |-> IF full THEN m.orders.order_count - 1
                                            ELSE m.orders.order_count],
                remaining_quantity |-> m.remaining_quantity - fill_quantity,
                fills |-> Append(m.fills, fill),
                total |-> m.total - fill_quantity,
                order_lookup |-> IF full
                                 THEN MapRemove(m.order_lookup, resting_order.id)
                                 ELSE m.order_lookup],
               price_level, taker_id)
    ELSE m

\* As MatchEntry, leaving a level that was emptied in the map.
MatchEntry_keep(side, key, remaining_quantity, fills, total, lookup, taker_id) ==
    LET r == MatchOrders([orders |-> side[key],
                          remaining_quantity |-> remaining_quantity,
                          fills |-> fills, total |-> total,
                          order_lookup |-> lookup], key, taker_id)
    IN  [side |-> [side EXCEPT ![key] = r.orders],
         remaining_quantity |-> r.remaining_quantity,
         fills |-> r.fills, total |-> r.total, order_lookup |-> r.order_lookup]
\* One pass of an outer matching loop over the entry at key of side.
MatchEntry(side, key, remaining_quantity, fills, total, lookup, taker_id) ==
    LET r == MatchOrders([orders |-> side[key],
                          remaining_quantity |-> remaining_quantity,
                          fills |-> fills, total |-> total,
                          order_lookup |-> lookup], key, taker_id)
    IN  [side |-> IF r.orders.order_count = 0 THEN MapRemove(side, key)
                  ELSE [side EXCEPT ![key] = r.orders],
         remaining_quantity |-> r.remaining_quantity,
         fills |-> r.fills, total |-> r.total, order_lookup |-> r.order_lookup]

\* The cross tests of add_limit_order: the taker stops at a level its
\* price does not reach.
\* As BuyStops, stopping at a level equal to the price too.
BuyStops_exclusive(price, level) == price <= level
BuyStops(price, level) == price < level
SellStops(price, level) == price > level

\* add_limit_order, Buy arm: walk the asks from the lowest price.
RECURSIVE AddLimitBuyLoop(_, _, _)
AddLimitBuyLoop(s, price, order_id) ==
    IF s.remaining_quantity > 0
    THEN IF DOMAIN s.side = {} THEN s
         ELSE LET key == MinKey(s.side)
              IN  IF BuyStops(price, key) THEN s
                  ELSE AddLimitBuyLoop(
                         MatchEntry(s.side, key, s.remaining_quantity, s.fills,
                                    s.total, s.order_lookup, order_id),
                         price, order_id)
    ELSE s

\* add_limit_order, Sell arm: walk the bids from the highest price.
RECURSIVE AddLimitSellLoop(_, _, _)
AddLimitSellLoop(s, price, order_id) ==
    IF s.remaining_quantity > 0
    THEN IF DOMAIN s.side = {} THEN s
         ELSE LET key == MaxKey(s.side)
              IN  IF SellStops(price, key) THEN s
                  ELSE AddLimitSellLoop(
                         MatchEntry(s.side, key, s.remaining_quantity, s.fills,
                                    s.total, s.order_lookup, order_id),
                         price, order_id)
    ELSE s

Err(b, msg) == [ok |-> FALSE, err |-> msg, id |-> 0, fills |-> <<>>, book |-> b]

\* The input validation of add_limit_order.
InvalidPrice(price) == price <= 0
\* As InvalidQuantity, letting a quantity of zero through.
InvalidQuantity_negative(quantity) == quantity < 0
InvalidQuantity(quantity) == quantity <= 0

\* OrderBook::add_limit_order on book b: the result and the book afterwards.
add_limit_order(b, ts, order_side, price, quantity) ==
    IF InvalidPrice(price) THEN Err(b, "Price must be positive")
    ELSE IF InvalidQuantity(quantity) THEN Err(b, "Quantity must be positive")
    ELSE
    LET order_id == b.next_id
        start == [side |-> IF order_side = "Buy" THEN b.asks ELSE b.bids,
                  remaining_quantity |-> quantity,
                  fills |-> <<>>,
                  total |-> IF order_side = "Buy" THEN b.total_ask_volume
                            ELSE b.total_bid_volume,
                  order_lookup |-> b.order_lookup]
        s == IF order_side = "Buy" THEN AddLimitBuyLoop(start, price, order_id)
             ELSE AddLimitSellLoop(start, price, order_id)
        b1 == IF order_side = "Buy"
              THEN [b EXCEPT !.next_id = next_order_id(order_id), !.asks = s.side,
                             !.total_ask_volume = s.total,
                             !.order_lookup = s.order_lookup]
              ELSE [b EXCEPT !.next_id = next_order_id(order_id), !.bids = s.side,
                             !.total_bid_volume = s.total,
                             !.order_lookup = s.order_lookup]
        tick == TickNew(price, ts).level
        order == OrderNew(order_id, s.remaining_quantity, "Limit", order_side)
        own == IF order_side = "Buy" THEN b1.bids ELSE b1.asks
        level == IF tick \in DOMAIN own THEN own[tick] ELSE OrdersNew
        b2 == IF s.remaining_quantity > 0
              THEN IF order_side = "Buy"
                   THEN [b1 EXCEPT
                           !.total_bid_volume = @ + s.remaining_quantity,
                           !.bids = MapPut(@, tick, add_order(level, order)),
                           !.order_lookup =
                               MapPut(@, order_id, <<order_side, tick>>)]
                   ELSE [b1 EXCEPT
                           !.total_ask_volume = @ + s.remaining_quantity,
                           !.asks = MapPut(@, tick, add_order(level, order)),
                           !.order_lookup =
                               MapPut(@, order_id, <<order_side, tick>>)]
              ELSE b1
    IN  [ok |-> TRUE, err |-> "", id |-> order_id, fills |-> s.fills, book |-> b2]

\* As cancel_limit_order, reading the order where it should remove it: the
\* order stays in its queue and in order_lookup.
cancel_limit_order_peek(b, order_id) ==
    IF order_id \notin DOMAIN b.order_lookup THEN Err(b, "Order not found")
    ELSE
    LET side == b.order_lookup[order_id][1]
        tick == b.order_lookup[order_id][2]
        book_side == IF side = "Buy" THEN b.bids ELSE b.asks
    IN  IF tick \notin DOMAIN book_side THEN Err(b, "Tick level not found")
        ELSE
        LET r == remove_order(book_side[tick], order_id)
        IN  IF ~r.ok THEN Err(b, "Order not found in tick level")
            ELSE [ok |-> TRUE, err |-> "", id |-> order_id, fills |-> <<>>,
                  book |-> IF side = "Buy"
                           THEN [b EXCEPT !.total_bid_volume = @ - r.order.quantity]
                           ELSE [b EXCEPT !.total_ask_volume = @ - r.order.quantity]]
\* OrderBook::cancel_limit_order on book b.
cancel_limit_order(b, order_id) ==
    IF order_id \notin DOMAIN b.order_lookup THEN Err(b, "Order not found")
    ELSE
    LET side == b.order_lookup[order_id][1]
        tick == b.order_lookup[order_id][2]
        book_side == IF side = "Buy" THEN b.bids ELSE b.asks
    IN  IF tick \notin DOMAIN book_side THEN Err(b, "Tick level not found")
        ELSE
        LET r == remove_order(book_side[tick], order_id)
            side1 == IF r.orders.order_count = 0 THEN MapRemove(book_side, tick)
                     ELSE [book_side EXCEPT ![tick] = r.orders]
            b1 == IF side = "Buy"
                  THEN [b EXCEPT
                          !.total_bid_volume = @ - r.order.quantity,
                          !.bids = side1,
                          !.order_lookup = MapRemove(@, order_id)]
                  ELSE [b EXCEPT
                          !.total_ask_volume = @ - r.order.quantity,
                          !.asks = side1,
                          !.order_lookup = MapRemove(@, order_id)]
        IN  IF ~r.ok THEN Err(b, "Order not found in tick level")
            ELSE [ok |-> TRUE, err |-> "", id |-> order_id, fills |-> <<>>,
                  book |-> b1]

\* execute_market_order's loop: walk the opposite side from its best level
\* with no price barrier.  failed records the early return taken when the
\* side has no entry left; what the loop changed before it stays changed.
RECURSIVE MarketLoop(_, _, _)
MarketLoop(s, side, market_order_id) ==
    IF s.remaining_quantity > 0
    THEN IF DOMAIN s.side = {} THEN [s EXCEPT !.failed = TRUE]
         ELSE LET key == IF side = "Buy" THEN MinKey(s.side) ELSE MaxKey(s.side)
                  e == MatchEntry(s.side, key, s.remaining_quantity, s.fills,
                                  s.total, s.order_lookup, market_order_id)
              IN  MarketLoop([side |-> e.side,
                              remaining_quantity |-> e.remaining_quantity,
                              fills |-> e.fills, total |-> e.total,
                              order_lookup |-> e.order_lookup,
                              failed |-> FALSE],
                             side, market_order_id)
    ELSE s

\* The comparison of the liquidity precheck.
\* As Insufficient, off by one.
Insufficient_late(available, quantity) == available + 1 < quantity
Insufficient(available, quantity) == available < quantity

\* As MatchedSide, taking the taker's own side.
MatchedSide_own(side) == IF side = "Buy" THEN "bids" ELSE "asks"
\* The side of the book a market order of the given side matches against.
MatchedSide(side) == IF side = "Buy" THEN "asks" ELSE "bids"

\* OrderBook::execute_market_order on book b.
execute_market_order(b, side, quantity) ==
    LET available == IF side = "Buy" THEN b.total_ask_volume
                     ELSE b.total_bid_volume
    IN  IF Insufficient(available, quantity)
        THEN Err(b, "Insufficient liquidity for market order")
        ELSE
        LET market_order_id == b.next_id
            s == MarketLoop([side |-> b[MatchedSide(side)],
                             remaining_quantity |-> quantity,
                             fills |-> <<>>,
                             total |-> available,
                             order_lookup |-> b.order_lookup,
                             failed |-> FALSE],
                            side, market_order_id)
            b0 == [b EXCEPT !.next_id = next_order_id(market_order_id),
                            ![MatchedSide(side)] = s.side,
                            !.order_lookup = s.order_lookup]
            b1 == IF side = "Buy"
                  THEN [b0 EXCEPT !.total_ask_volume = s.total]
                  ELSE [b0 EXCEPT !.total_bid_volume = s.total]
        IN  IF s.failed
            THEN [ok |-> FALSE, err |-> "Insufficient liquidity in loop",
                  id |-> market_order_id, fills |-> <<>>, book |-> b1]
            ELSE [ok |-> TRUE, err |-> "", id |-> market_order_id,
                  fills |-> s.fills, book |-> b1]

(* ---- observers ---- *)
None == 0 - 1000

\* As best_bid, reading the first key of bids for the last.
best_bid_first(b) == IF DOMAIN b.bids = {} THEN None ELSE MinKey(b.bids)
best_bid(b) == IF DOMAIN b.bids = {} THEN None ELSE MaxKey(b.bids)
best_ask(b) == IF DOMAIN b.asks = {} THEN None ELSE MinKey(b.asks)
spread(b) ==
    IF best_ask(b) # None /\ best_bid(b) # None
    THEN best_ask(b) - best_bid(b) ELSE None
best_prices(b) == <<best_bid(b), best_ask(b)>>
best_bid_volume(b) ==
    IF DOMAIN b.bids = {} THEN None ELSE b.bids[MaxKey(b.bids)].total_volume
best_ask_volume(b) ==
    IF DOMAIN b.asks = {} THEN None ELSE b.asks[MinKey(b.asks)].total_volume

(* ---- the state machine ---- *)
RECURSIVE SumFills(_)
SumFills(fills) ==
    IF fills = <<>> THEN 0 ELSE Head(fills).quantity + SumFills(Tail(fills))

\* The total filled per maker after fills are added to the record f.
RECURSIVE AddFills(_, _)
AddFills(f, fills) ==
    IF fills = <<>> THEN f
    ELSE AddFills([f EXCEPT ![Head(fills).maker_order_id] =
                              @ + Head(fills).quantity], Tail(fills))

\* Install the outcome r of a call; call names the operation and its
\* arguments.  rested and maker_filled record, per OrderId, the quantity
\* the order came to rest with and the fills made against it since;
\* limit_price the price a resting order was submitted with; cancel_count how many
\* times a cancel of the id succeeded; allocated the ids handed to the successful
\* add_limit_order and execute_market_order calls, in call order.
\* last.undo is on when the call is a cancel of the id that the call just
\* before, an add_limit_order without fills, returned; it keeps the book
\* as it was before that add.
Apply(r, call) ==
    /\ bids' = r.book.bids
    /\ asks' = r.book.asks
    /\ next_id' = r.book.next_id
    /\ order_lookup' = r.book.order_lookup
    /\ total_bid_volume' = r.book.total_bid_volume
    /\ total_ask_volume' = r.book.total_ask_volume
    /\ tick_size' = tick_size
    /\ last' = [op |-> call.op, side |-> call.side, price |-> call.price,
                quantity |-> call.quantity, order_id |-> call.order_id,
                ok |-> r.ok, err |-> r.err, id |-> r.id, fills |-> r.fills,
                pre |-> Book,
                undo |-> IF /\ call.op = "cancel_limit_order"
                            /\ last.op = "add_limit_order" /\ last.ok
                            /\ last.fills = <<>>
                            /\ call.order_id = last.id
                         THEN [on |-> TRUE, book |-> last.pre]
                         ELSE [on |-> FALSE, book |-> OrderBookNew]]
    /\ cancel_count' =
           IF call.op = "cancel_limit_order" /\ r.ok
           THEN MapPut(cancel_count, call.order_id,
                       IF call.order_id \in DOMAIN cancel_count
                       THEN cancel_count[call.order_id] + 1 ELSE 1)
           ELSE cancel_count
    /\ allocated' = IF call.op # "cancel_limit_order" /\ r.ok
                    THEN Append(allocated, r.id) ELSE allocated
    /\ LET new == call.op = "add_limit_order" /\ r.ok
                  /\ r.id \in DOMAIN r.book.order_lookup
       IN  /\ rested' = IF new
                        THEN MapPut(rested, r.id,
                                    call.quantity - SumFills(r.fills))
                        ELSE rested
           /\ maker_filled' = IF new
                              THEN MapPut(AddFills(maker_filled, r.fills),
                                          r.id, 0)
                              ELSE AddFills(maker_filled, r.fills)
           /\ limit_price' =
                  LET lp == IF new THEN MapPut(limit_price, r.id, call.price)
                            ELSE limit_price
                  IN  [id \in DOMAIN r.book.order_lookup |-> lp[id]]

Init ==
    /\ tick_size \in TickSizes
    /\ bids = OrderBookNew.bids
    /\ asks = OrderBookNew.asks
    /\ next_id = OrderBookNew.next_id
    /\ order_lookup = OrderBookNew.order_lookup
    /\ total_bid_volume = OrderBookNew.total_bid_volume
    /\ total_ask_volume = OrderBookNew.total_ask_volume
    /\ last = [op |-> "new", side |-> "Buy", price |-> 0, quantity |-> 0,
               order_id |-> 0, ok |-> TRUE, err |-> "", id |-> 0,
               fills |-> <<>>, pre |-> OrderBookNew,
               undo |-> [on |-> FALSE, book |-> OrderBookNew]]
    /\ rested = <<>>
    /\ maker_filled = <<>>
    /\ limit_price = <<>>
    /\ cancel_count = <<>>
    /\ allocated = <<>>

AddLimitOrder ==
    \E order_side \in Sides, price \in Prices, quantity \in Quantities :
        LET r == add_limit_order(Book, tick_size, order_side, price, quantity)
        IN  /\ r.book.next_id <= MaxOrders
            /\ Apply(r, [op |-> "add_limit_order", side |-> order_side,
                         price |-> price, quantity |-> quantity,
                         order_id |-> 0])

CancelLimitOrder ==
    \E order_id \in OrderIds :
        Apply(cancel_limit_order(Book, order_id),
              [op |-> "cancel_limit_order", side |-> "Buy", price |-> 0,
               quantity |-> 0, order_id |-> order_id])

ExecuteMarketOrder ==
    \E side \in Sides, quantity \in Quantities :
        LET r == execute_market_order(Book, side, quantity)
        IN  /\ r.book.next_id <= MaxOrders
            /\ Apply(r, [op |-> "execute_market_order", side |-> side,
                         price |-> 0, quantity |-> quantity, order_id |-> 0])

Next == AddLimitOrder \/ CancelLimitOrder \/ ExecuteMarketOrder

Spec == Init /\ [][Next]_vars

(* ---- properties ---- *)
Matched == last.op \in {"add_limit_order", "execute_market_order"} /\ last.ok
Opposite(b, side) == IF side = "Buy" THEN b.asks ELSE b.bids
Own(b, side) == IF side = "Buy" THEN b.bids ELSE b.asks
OppositeVolume(b, side) ==
    IF side = "Buy" THEN b.total_ask_volume ELSE b.total_bid_volume
OwnVolume(b, side) ==
    IF side = "Buy" THEN b.total_bid_volume ELSE b.total_ask_volume

\* The orders resting on a side.
Resting(side) ==
    UNION {{side[k].orders[i] : i \in 1 .. Len(side[k].orders)} :
              k \in DOMAIN side}
RestingIds(side) == {o.id : o \in Resting(side)}

\* The makers a taker of the given side meets, in priority order: best
\* level first, each level from head to tail.
RECURSIVE Priority(_, _)
Priority(side, taker_side) ==
    IF DOMAIN side = {} THEN <<>>
    ELSE LET key == IF taker_side = "Buy"
                    THEN CHOOSE k \in DOMAIN side : \A j \in DOMAIN side : k <= j
                    ELSE CHOOSE k \in DOMAIN side : \A j \in DOMAIN side : k >= j
         IN  [i \in 1 .. Len(side[key].orders) |->
                 [id |-> side[key].orders[i].id, level |-> key,
                  quantity |-> side[key].orders[i].quantity]]
             \o Priority([j \in DOMAIN side \ {key} |-> side[j]], taker_side)

\* C1: the fills of a successful add_limit_order or execute_market_order
\* name, in order, the first makers of the opposite side as it was at call
\* start, taken best level first and head to tail within a level, each at
\* its level's price; every maker before the last one filled was filled for
\* its whole quantity and has left the book.
C1_PriceTimeOrder ==
    Matched =>
        LET flat == Priority(Opposite(last.pre, last.side), last.side)
            n == Len(last.fills)
        IN  /\ n <= Len(flat)
            /\ \A i \in 1 .. n :
                   /\ last.fills[i].maker_order_id = flat[i].id
                   /\ last.fills[i].price = flat[i].level
            /\ \A i \in 1 .. (n - 1) :
                   /\ last.fills[i].quantity = flat[i].quantity
                   /\ flat[i].id \notin RestingIds(Opposite(Book, last.side))

\* A taker swept a first level and went on to fill at a second one.
C1_Witness ==
    /\ Matched
    /\ Len(last.fills) = 2
    /\ last.fills[1].price # last.fills[2].price

\* C2: every resting order's quantity is the quantity it rested with less
\* the fills made against it.
C2_QuantityIsRemaining ==
    \A o \in Resting(bids) \cup Resting(asks) :
        o.quantity = rested[o.id] - maker_filled[o.id]

\* C3: when both sides hold orders, the best bid is strictly below the best
\* ask, so the spread is positive.
C3_NoCross ==
    (DOMAIN bids # {} /\ DOMAIN asks # {}) =>
        /\ best_bid(Book) < best_ask(Book)
        /\ spread(Book) > 0

\* C4: a successful execute_market_order(side, q) returns fills that sum to
\* q and lowers the opposite side's aggregate volume by q.
C4_MarketFillsSumToQuantity ==
    (last.op = "execute_market_order" /\ last.ok) =>
        /\ SumFills(last.fills) = last.quantity
        /\ OppositeVolume(Book, last.side) =
               OppositeVolume(last.pre, last.side) - last.quantity

\* C5: an execute_market_order that returns an error was stopped by the
\* liquidity precheck and left the book, next_id included, as it was.
C5_MarketAllOrNothing ==
    (last.op = "execute_market_order" /\ ~last.ok) =>
        /\ Book = last.pre
        /\ last.err = "Insufficient liquidity for market order"

\* A market order larger than the liquidity that was there was refused.
C5_Witness ==
    /\ last.op = "execute_market_order"
    /\ ~last.ok
    /\ OppositeVolume(last.pre, last.side) > 0
    /\ last.quantity > OppositeVolume(last.pre, last.side)

AddedLimit == last.op = "add_limit_order" /\ last.ok
Remainder == last.quantity - SumFills(last.fills)
Abs(x) == IF x < 0 THEN 0 - x ELSE x

\* tick is a multiple of the tick size ts nearest to price.
SnappedTo(tick, price, ts) ==
    /\ tick % ts = 0
    /\ 2 * Abs(tick - price) <= ts

\* The same for the book's tick size.
Snapped(tick, price) == SnappedTo(tick, price, tick_size)

QueueAt(side, tick) == IF tick \in DOMAIN side THEN side[tick].orders ELSE <<>>
Without(side, tick) == [j \in DOMAIN side \ {tick} |-> side[j]]

\* C6: a successful add_limit_order fills and rests its whole quantity: a
\* positive remainder rests as one new order with the returned id at the
\* tail of the level at the snapped tick on the taker's side, indexed as
\* (side, tick), and the taker-side aggregate grows by it; with no remainder
\* nothing rests and the id is not indexed.
C6_RemainderRests ==
    AddedLimit =>
        LET own == Own(Book, last.side)
            pre_own == Own(last.pre, last.side)
        IN  /\ Remainder >= 0
            /\ Remainder > 0 =>
                 /\ last.id \in DOMAIN order_lookup
                 /\ order_lookup[last.id][1] = last.side
                 /\ LET tick == order_lookup[last.id][2]
                    IN  /\ Snapped(tick, last.price)
                        /\ tick \in DOMAIN own
                        /\ own[tick].orders =
                               Append(QueueAt(pre_own, tick),
                                      [id |-> last.id, quantity |-> Remainder,
                                       order_type |-> "Limit",
                                       order_side |-> last.side])
                        /\ Without(own, tick) = Without(pre_own, tick)
                 /\ last.id \notin RestingIds(Opposite(Book, last.side))
                 /\ OwnVolume(Book, last.side) =
                        OwnVolume(last.pre, last.side) + Remainder
            /\ Remainder = 0 =>
                 /\ last.id \notin DOMAIN order_lookup
                 /\ own = pre_own
                 /\ OwnVolume(Book, last.side) = OwnVolume(last.pre, last.side)

\* A limit order was filled in part and its remainder came to rest.
C6_Witness ==
    /\ AddedLimit
    /\ last.fills # <<>>
    /\ Remainder > 0
    /\ last.id \in DOMAIN order_lookup

\* C7: add_limit_order crosses inclusively and no further than its price:
\* a Buy matches the best ask level L exactly when price >= L (a Sell the
\* best bid when price <= L), no fill is priced beyond the limit, and a
\* call that leaves a remainder leaves an opposite side that is empty or
\* whose best level does not cross the price.
C7_InclusiveCrossing ==
    AddedLimit =>
        LET opp == Opposite(Book, last.side)
            pre_opp == Opposite(last.pre, last.side)
            buy == last.side = "Buy"
        IN  /\ \A i \in 1 .. Len(last.fills) :
                   IF buy THEN last.fills[i].price <= last.price
                   ELSE last.fills[i].price >= last.price
            /\ DOMAIN pre_opp # {} =>
                   LET L == IF buy THEN MinKey(pre_opp) ELSE MaxKey(pre_opp)
                       reaches == IF buy THEN last.price >= L
                                  ELSE last.price <= L
                   IN  /\ reaches => (last.fills # <<>>
                                      /\ last.fills[1].price = L)
                       /\ ~reaches => last.fills = <<>>
            /\ DOMAIN pre_opp = {} => last.fills = <<>>
            /\ (Remainder > 0 /\ DOMAIN opp # {}) =>
                   IF buy THEN last.price < MinKey(opp)
                   ELSE last.price > MaxKey(opp)

\* A limit order priced exactly at the opposite best level was matched.
C7_Witness ==
    /\ AddedLimit
    /\ last.fills # <<>>
    /\ last.fills[1].price = last.price

\* C8: add_limit_order with a price or a quantity that is not positive
\* returns an error and changes nothing, next_id included.
C8_InvalidLimitRejected ==
    (last.op = "add_limit_order" /\ (last.price <= 0 \/ last.quantity <= 0)) =>
        /\ ~last.ok
        /\ Book = last.pre

\* A limit order with quantity zero was refused by a book holding orders.
C8_Witness ==
    /\ last.op = "add_limit_order"
    /\ last.price > 0
    /\ last.quantity = 0
    /\ ~last.ok
    /\ DOMAIN order_lookup # {}

\* C9: execute_market_order with a quantity that is not positive returns an
\* error and changes nothing, next_id included.
C9_InvalidMarketRejected ==
    (last.op = "execute_market_order" /\ last.quantity <= 0) =>
        /\ ~last.ok
        /\ Book = last.pre

Cancelled == last.op = "cancel_limit_order" /\ last.ok

\* The queue s without its orders of the given id, the rest in order.
RECURSIVE Skip(_, _)
Skip(s, id) ==
    IF s = <<>> THEN <<>>
    ELSE IF Head(s).id = id THEN Skip(Tail(s), id)
    ELSE <<Head(s)>> \o Skip(Tail(s), id)

\* C10: a successful cancel_limit_order(id) takes exactly that order out of
\* its level and out of the index, drops the level when it held no other
\* order, and leaves the other orders of the level in their order, every
\* other level, the opposite side and its aggregate, and next_id as they were.
C10_CancelFrame ==
    Cancelled =>
        LET side == last.pre.order_lookup[last.order_id][1]
            tick == last.pre.order_lookup[last.order_id][2]
            own == Own(Book, side)
            pre_own == Own(last.pre, side)
            rest == Skip(pre_own[tick].orders, last.order_id)
        IN  /\ order_lookup = [j \in DOMAIN last.pre.order_lookup
                                     \ {last.order_id} |->
                                 last.pre.order_lookup[j]]
            /\ Len(rest) = Len(pre_own[tick].orders) - 1
            /\ rest = <<>> => tick \notin DOMAIN own
            /\ rest # <<>> => (/\ tick \in DOMAIN own
                               /\ own[tick].orders = rest)
            /\ Without(own, tick) = Without(pre_own, tick)
            /\ Opposite(Book, side) = Opposite(last.pre, side)
            /\ OppositeVolume(Book, side) = OppositeVolume(last.pre, side)
            /\ next_id = last.pre.next_id

\* The second of two orders of a level was cancelled while the other side
\* held an order too.
C10_Witness ==
    /\ Cancelled
    /\ LET side == last.pre.order_lookup[last.order_id][1]
           tick == last.pre.order_lookup[last.order_id][2]
           queue == Own(last.pre, side)[tick].orders
       IN  /\ Len(queue) = 2
           /\ queue[2].id = last.order_id
           /\ DOMAIN Opposite(Book, side) # {}

\* C11: a cancel_limit_order of an id that is not in the order index returns
\* an error and changes nothing; an id whose cancel succeeded is out of the
\* index for good, so no id is ever cancelled twice.
C11_CancelUnknownFails ==
    /\ (last.op = "cancel_limit_order"
        /\ last.order_id \notin DOMAIN last.pre.order_lookup) =>
           (~last.ok /\ Book = last.pre)
    /\ \A id \in DOMAIN cancel_count :
           /\ cancel_count[id] = 1
           /\ id \notin DOMAIN order_lookup

\* A second cancel of an id was refused while other orders rested.
C11_Witness ==
    /\ last.op = "cancel_limit_order"
    /\ ~last.ok
    /\ last.order_id \in DOMAIN cancel_count
    /\ DOMAIN order_lookup # {}

\* C12: an order that was cancelled, or whose fills as maker add up to the
\* quantity it rested with, is out of the order index, and a cancel of its
\* id fails.
C12_TerminalNotIndexed ==
    \A id \in DOMAIN rested :
        (id \in DOMAIN cancel_count \/ maker_filled[id] >= rested[id]) =>
            /\ id \notin DOMAIN order_lookup
            /\ ~cancel_limit_order(Book, id).ok

\* C13: the ids handed to the successful add_limit_order and
\* execute_market_order calls are 0, 1, 2, ... in call order, next_id is
\* their number, and a call that fails leaves next_id as it was.
C13_IdsSequential ==
    /\ allocated = [i \in 1 .. Len(allocated) |-> i - 1]
    /\ next_id = Len(allocated)
    /\ ~last.ok => next_id = last.pre.next_id
    /\ (last.op \in {"add_limit_order", "execute_market_order"} /\ last.ok) =>
           /\ last.id = last.pre.next_id
           /\ next_id = last.id + 1
           /\ \A i \in 1 .. Len(last.fills) :
                  last.fills[i].taker_order_id = last.id

\* A market order that filled took the third id.
C13_Witness ==
    /\ last.op = "execute_market_order"
    /\ last.ok
    /\ last.fills # <<>>
    /\ last.id = 2
    /\ Len(allocated) = 3

\* C14: a successful execute_market_order(side, q) whose q equals the
\* opposite side's aggregate volume leaves that side without a level, its
\* aggregate at zero and none of its former orders in the order index.
C14_MarketSweepsSide ==
    (/\ last.op = "execute_market_order"
     /\ last.ok
     /\ last.quantity = OppositeVolume(last.pre, last.side)) =>
        /\ DOMAIN Opposite(Book, last.side) = {}
        /\ OppositeVolume(Book, last.side) = 0
        /\ RestingIds(Opposite(last.pre, last.side)) \cap DOMAIN order_lookup = {}

\* A price that crosses every level of the side opposite to a taker.
CrossesAll(b, side, p) ==
    \A k \in DOMAIN Opposite(b, side) :
        IF side = "Buy" THEN p >= k ELSE p <= k

\* What C15 compares of a call's outcome: whether it succeeded, its fills,
\* and the opposite side, the order index and both aggregates afterwards.
Outcome(r, side) ==
    [ok |-> r.ok, fills |-> r.fills,
     opposite |-> Opposite(r.book, side),
     order_lookup |-> r.book.order_lookup,
     total_bid_volume |-> r.book.total_bid_volume,
     total_ask_volume |-> r.book.total_ask_volume]

\* C15: in every state, for every q up to the opposite side's aggregate
\* volume and every positive price p that crosses all opposite levels,
\* execute_market_order(side, q) and add_limit_order(side, p, q) have the
\* same outcome.
C15_MarketAsCrossingLimit ==
    \A side \in Sides, q \in Quantities, p \in 1 .. MaxPrice :
        (q <= OppositeVolume(Book, side) /\ CrossesAll(Book, side, p)) =>
            Outcome(execute_market_order(Book, side, q), side) =
            Outcome(add_limit_order(Book, tick_size, side, p, q), side)

\* The same for the positive quantities alone.
C15_PositiveQuantity ==
    \A side \in Sides, q \in 1 .. MaxQty, p \in 1 .. MaxPrice :
        (q <= OppositeVolume(Book, side) /\ CrossesAll(Book, side, p)) =>
            Outcome(execute_market_order(Book, side, q), side) =
            Outcome(add_limit_order(Book, tick_size, side, p, q), side)

\* C16: a cancel_limit_order of the id that the call just before, a
\* successful add_limit_order without fills, returned succeeds and puts
\* both sides, the order index and both aggregates back as they were
\* before the add; next_id alone stays one higher.
C16_AddCancelRestores ==
    last.undo.on =>
        /\ last.ok
        /\ Book = [last.undo.book EXCEPT !.next_id = @ + 1]

\* An order was added behind another one of its level, without a fill, and
\* cancelled at once.
C16_Witness ==
    /\ last.undo.on
    /\ last.ok
    /\ LET side == last.pre.order_lookup[last.order_id][1]
           tick == last.pre.order_lookup[last.order_id][2]
       IN  /\ tick \in DOMAIN Own(Book, side)
           /\ DOMAIN Opposite(Book, side) # {}

\* C17: best_bid() is the largest level of bids and best_ask() the smallest
\* of asks, None exactly when the side has no level; best_bid_volume() and
\* best_ask_volume() are the total_volume of those levels; spread() is
\* best_ask - best_bid when both exist and None otherwise; best_prices() is
\* the pair (best_bid, best_ask).
C17_ObserversAgree ==
    /\ (DOMAIN bids = {}) <=> (best_bid(Book) = None)
    /\ (DOMAIN bids = {}) <=> (best_bid_volume(Book) = None)
    /\ (DOMAIN asks = {}) <=> (best_ask(Book) = None)
    /\ (DOMAIN asks = {}) <=> (best_ask_volume(Book) = None)
    /\ DOMAIN bids # {} =>
           /\ best_bid(Book) \in DOMAIN bids
           /\ \A k \in DOMAIN bids : k <= best_bid(Book)
           /\ \E k \in DOMAIN bids :
                  /\ \A j \in DOMAIN bids : j <= k
                  /\ best_bid_volume(Book) = bids[k].total_volume
    /\ DOMAIN asks # {} =>
           /\ best_ask(Book) \in DOMAIN asks
           /\ \A k \in DOMAIN asks : k >= best_ask(Book)
           /\ \E k \in DOMAIN asks :
                  /\ \A j \in DOMAIN asks : j >= k
                  /\ best_ask_volume(Book) = asks[k].total_volume
    /\ (DOMAIN bids # {} /\ DOMAIN asks # {}) =>
           \E bid \in DOMAIN bids, ask \in DOMAIN asks :
               /\ \A j \in DOMAIN bids : j <= bid
               /\ \A j \in DOMAIN asks : j >= ask
               /\ spread(Book) = ask - bid
    /\ (DOMAIN bids = {} \/ DOMAIN asks = {}) => spread(Book) = None
    /\ best_prices(Book) = <<best_bid(Book), best_ask(Book)>>

\* Bids rest at two levels and an ask rests too.
C17_Witness ==
    /\ Cardinality(DOMAIN bids) = 2
    /\ DOMAIN asks # {}
    /\ spread(Book) # None

\* The level of a side in whose queue the order of the given id rests.
LevelOf(side, id) ==
    CHOOSE k \in DOMAIN side : \E i \in 1 .. Len(side[k].orders) :
                                  side[k].orders[i].id = id

\* The side on which the order of the given id rests.
SideOf(id) == IF id \in RestingIds(bids) THEN bids ELSE asks

\* C18: Tick::new snaps a positive price to a nearest multiple of the tick
\* size, whatever the tick size, leaves an exact multiple unchanged and is
\* idempotent; two orders resting on one side share a level exactly when
\* their submitted prices snap to the same multiple.
C18_TickNormalization ==
    /\ \A ts \in 1 .. (2 * tick_size), p \in 1 .. (4 * MaxPrice) :
           LET t == TickNew(p, ts)
           IN  /\ t.ok
               /\ SnappedTo(t.level, p, ts)
               /\ (p % ts = 0) => (t.level = p)
               /\ normalize(t.level, ts) = t.level
    /\ \A a \in DOMAIN limit_price, b \in DOMAIN limit_price :
           (SideOf(a) = SideOf(b)) =>
               ((LevelOf(SideOf(a), a) = LevelOf(SideOf(b), b))
                <=> (TickNew(limit_price[a], tick_size).level =
                     TickNew(limit_price[b], tick_size).level))

\* Three orders rest on one side: two of different prices in one level, the
\* third in another.
C18_Witness ==
    \E a \in DOMAIN limit_price, b \in DOMAIN limit_price,
       c \in DOMAIN limit_price :
        /\ SideOf(a) = SideOf(b) /\ SideOf(b) = SideOf(c)
        /\ limit_price[a] # limit_price[b]
        /\ LevelOf(SideOf(a), a) = LevelOf(SideOf(b), b)
        /\ LevelOf(SideOf(c), c) # LevelOf(SideOf(a), a)

\* C19: every fill of a successful add_limit_order or execute_market_order
\* has a positive quantity, the id allocated for the call as its taker, a
\* maker that rested on the opposite side at call start and is not the
\* taker, and the level at which that maker rested as its price.
C19_FillsWellFormed ==
    Matched =>
        \A i \in 1 .. Len(last.fills) :
            LET f == last.fills[i]
                pre_opp == Opposite(last.pre, last.side)
            IN  /\ f.quantity > 0
                /\ f.taker_order_id = last.id
                /\ last.id = last.pre.next_id
                /\ f.maker_order_id \in RestingIds(pre_opp)
                /\ f.maker_order_id # f.taker_order_id
                /\ f.price = LevelOf(pre_opp, f.maker_order_id)

\* A market order was filled by two makers.
C19_Witness ==
    /\ last.op = "execute_market_order"
    /\ last.ok
    /\ Len(last.fills) = 2
    /\ last.fills[1].maker_order_id # last.fills[2].maker_order_id

\* C20: after a successful execute_market_order the id allocated for it is
\* not in the order index, and the taker's own side and its aggregate
\* volume are as they were before the call.
C20_MarketNeverRests ==
    (last.op = "execute_market_order" /\ last.ok) =>
        /\ last.id \notin DOMAIN order_lookup
        /\ last.id \notin RestingIds(bids) \cup RestingIds(asks)
        /\ Own(Book, last.side) = Own(last.pre, last.side)
        /\ OwnVolume(Book, last.side) = OwnVolume(last.pre, last.side)

\* A market order was filled while orders rested on its own side.
C20_Witness ==
    /\ last.op = "execute_market_order"
    /\ last.ok
    /\ last.fills # <<>>
    /\ DOMAIN Own(Book, last.side) # {}

\* The sum of the quantity fields of the orders of a queue.
RECURSIVE SumQuantity(_)
SumQuantity(s) ==
    IF s = <<>> THEN 0 ELSE Head(s).quantity + SumQuantity(Tail(s))

\* The sum of total_volume over the levels of a side.
RECURSIVE SumVolume(_)
SumVolume(side) ==
    IF DOMAIN side = {} THEN 0
    ELSE LET k == CHOOSE j \in DOMAIN side : TRUE
         IN  side[k].total_volume + SumVolume([j \in DOMAIN side \ {k} |-> side[j]])

\* The sum of order_count over the levels of a side.
RECURSIVE SumCount(_)
SumCount(side) ==
    IF DOMAIN side = {} THEN 0
    ELSE LET k == CHOOSE j \in DOMAIN side : TRUE
         IN  side[k].order_count + SumCount([j \in DOMAIN side \ {k} |-> side[j]])

\* C21: in every level of either side total_volume is the sum of the
\* quantity fields of the orders of its queue, and order_count is the length
\* of the queue.
C21_LevelTotals ==
    \A side \in {bids, asks} : \A k \in DOMAIN side :
        /\ side[k].total_volume = SumQuantity(side[k].orders)
        /\ side[k].order_count = Len(side[k].orders)

\* C22: after every operation total_bid_volume is the sum of total_volume
\* over the levels of bids and total_ask_volume the sum over the levels of
\* asks, zero for a side without a level.
C22_AggregateIsSumOfLevels ==
    /\ total_bid_volume = SumVolume(bids)
    /\ total_ask_volume = SumVolume(asks)

\* The positions of a queue at which the order of the given id stands.
Places(s, id) == {i \in 1 .. Len(s) : s[i].id = id}

\* C23: after every operation the order index and the sides are in
\* bijection: every (id -> (side, tick)) of the index has a level at tick on
\* that side whose queue holds exactly one order of that id, and that order
\* is of that side; every order resting in a level is indexed under its
\* side and level; so the size of the index is the sum of order_count over
\* both sides.
C23_IndexBijection ==
    /\ \A id \in DOMAIN order_lookup :
           LET side == order_lookup[id][1]
               tick == order_lookup[id][2]
               own == Own(Book, side)
           IN  /\ tick \in DOMAIN own
               /\ Cardinality(Places(own[tick].orders, id)) = 1
               /\ \A i \in Places(own[tick].orders, id) :
                      own[tick].orders[i].order_side = side
    /\ \A side \in Sides : \A k \in DOMAIN Own(Book, side) :
           \A i \in 1 .. Len(Own(Book, side)[k].orders) :
               LET id == Own(Book, side)[k].orders[i].id
               IN  /\ id \in DOMAIN order_lookup
                   /\ order_lookup[id] = <<side, k>>
    /\ Cardinality(DOMAIN order_lookup) = SumCount(bids) + SumCount(asks)

\* A limit order consumed a maker, which left the index, and rested its
\* remainder, which entered it, while another order stayed indexed.
C23_Witness ==
    /\ AddedLimit
    /\ last.fills # <<>>
    /\ last.fills[1].maker_order_id \notin DOMAIN order_lookup
    /\ last.id \in DOMAIN order_lookup
    /\ Cardinality(DOMAIN order_lookup) = 2

\* C24: after every operation no level of bids or asks has order_count zero
\* or an empty queue: the match or cancel that removes the last order of a
\* level erases the level.
C24_NoEmptyLevel ==
    \A side \in {bids, asks} : \A k \in DOMAIN side :
        /\ side[k].order_count # 0
        /\ side[k].orders # <<>>

\* A match or a cancel took the only order of a level, the level is gone
\* and another level of that side is still there.
C24_Witness ==
    /\ last.op \in {"add_limit_order", "execute_market_order",
                    "cancel_limit_order"}
    /\ last.ok
    /\ \E side \in Sides :
           LET own == Own(Book, side)
               pre_own == Own(last.pre, side)
           IN  /\ DOMAIN own # {}
               /\ \E k \in DOMAIN pre_own \ DOMAIN own :
                      Len(pre_own[k].orders) = 1

\* C25: no maker is over-filled: for every order id the fills that name it
\* as maker add up to no more than the quantity the order came to rest with.
C25_NoOverfill ==
    \A id \in DOMAIN rested : maker_filled[id] <= rested[id]

\* C26: in every reachable state both aggregate volumes are at least zero
\* and every level of a side has a positive total_volume, so
\* best_bid_volume() and best_ask_volume() are positive when present.
C26_VolumesPositive ==
    /\ total_bid_volume >= 0
    /\ total_ask_volume >= 0
    /\ \A side \in {bids, asks} : \A k \in DOMAIN side :
           side[k].total_volume > 0
    /\ best_bid_volume(Book) # None => best_bid_volume(Book) > 0
    /\ best_ask_volume(Book) # None => best_ask_volume(Book) > 0

\* C27: a successful cancel_limit_order of an order that was filled in
\* part lowers its side's aggregate volume, and the total_volume of its
\* level when the level stays, by the order's unfilled remainder: the
\* quantity it rested with less the fills against it.
C27_CancelRemovesRemainder ==
    (Cancelled /\ maker_filled[last.order_id] > 0) =>
        LET side == last.pre.order_lookup[last.order_id][1]
            tick == last.pre.order_lookup[last.order_id][2]
            own == Own(Book, side)
            pre_own == Own(last.pre, side)
            unfilled == rested[last.order_id] - maker_filled[last.order_id]
        IN  /\ OwnVolume(Book, side) = OwnVolume(last.pre, side) - unfilled
            /\ tick \in DOMAIN own =>
                   own[tick].total_volume = pre_own[tick].total_volume - unfilled

\* C28: in every reachable state the ids of each level's queue increase
\* strictly from head to tail; an order that was filled in part and still
\* rests is the head of its queue; and a successful cancel leaves the other
\* orders of the level in the order they had.
C28_QueueInIdOrder ==
    /\ \A side \in {bids, asks} : \A k \in DOMAIN side :
           /\ \A i \in 1 .. Len(side[k].orders), j \in 1 .. Len(side[k].orders) :
                  (i < j) => (side[k].orders[i].id < side[k].orders[j].id)
           /\ \A i \in 2 .. Len(side[k].orders) :
                  maker_filled[side[k].orders[i].id] = 0
    /\ Cancelled =>
           LET side == last.pre.order_lookup[last.order_id][1]
               tick == last.pre.order_lookup[last.order_id][2]
           IN  QueueAt(Own(Book, side), tick) =
                   Skip(Own(last.pre, side)[tick].orders, last.order_id)

\* A taker filled the head of a queue of two in part: the head, with fills
\* against it, still stands before the order that came after it.
C28_Witness ==
    /\ Matched
    /\ last.fills # <<>>
    /\ \E k \in DOMAIN Opposite(Book, last.side) :
           LET queue == Opposite(Book, last.side)[k].orders
           IN  /\ Len(queue) = 2
               /\ queue[1].id = last.fills[Len(last.fills)].maker_order_id
               /\ maker_filled[queue[1].id] > 0

\* C29: every level of bids and asks is positive and an exact multiple of
\* the book's tick_size: no accepted limit order rests at level 0.
C29_LevelsPositive ==
    \A k \in DOMAIN bids \cup DOMAIN asks :
        /\ k > 0
        /\ k % tick_size = 0

\* No fill of the sequence executes its maker, of the side opposite to
\* taker_side, at a price worse than the price the maker was submitted
\* with.
WithinLimits(fills, taker_side) ==
    \A i \in 1 .. Len(fills) :
        IF taker_side = "Sell"
        THEN fills[i].price <= limit_price[fills[i].maker_order_id]
        ELSE fills[i].price >= limit_price[fills[i].maker_order_id]

\* C30: in every state, whatever add_limit_order or execute_market_order
\* call comes next, each of its fills executes the resting maker at a price
\* no worse than the price passed to the maker's add_limit_order: at most
\* that price for a resting Buy, at least that price for a resting Sell.
C30_MakerWithinLimit ==
    /\ \A side \in Sides, p \in Prices, q \in Quantities :
           WithinLimits(add_limit_order(Book, tick_size, side, p, q).fills, side)
    /\ \A side \in Sides, q \in Quantities :
           WithinLimits(execute_market_order(Book, side, q).fills, side)

====
